---- MODULE Spec2Model ----
(***************************************************************************)
(* Irys: the capture -> review -> extract -> verify -> export flow of the  *)
(* web client (irys-web/src/App.tsx and its screens), together with the    *)
(* export store it talks to.  The client is translated from the source;    *)
(* the store side of POST /export-db (the idempotent export gate and its   *)
(* atomic commit) is not part of the sources and is modelled from the      *)
(* specification, sections 3 and 4.4.                                      *)
(***************************************************************************)
EXTENDS Naturals, Sequences, FiniteSets

VARIABLES
    \* ---- App state (useState hooks of App) ----
    view,             \* ViewState
    session,          \* SessionConfig | null
    file,             \* File | null
    sessionStats,     \* { photosSaved, rowsSaved }
    captureNotice,    \* string | null
    isProcessing,     \* boolean
    rows,             \* TableRow[]
    statusMessage,    \* string | null
    bootError,        \* string | null
    isBooting,        \* boolean
    \* ---- VerificationScreen local state (mounted only in the verify view) ----
    vrows,            \* the screen's own rows state
    edits,            \* cell edits and added rows the user has made so far
    \* ---- ReviewScreen local state ----
    rotation,         \* quarter turns, 0..3
    isSubmitting,     \* boolean
    reviewError,      \* string | null
    \* ---- asynchronous calls in progress ----
    boots,            \* running bootstrapEngine calls: their attempt number
    extracts,         \* running runExtraction calls
    exports,          \* running handleExport calls
    \* ---- the export store (rows, export records, sessions, audit log) ----
    storeRows,        \* committed row batches
    exportRecords,    \* ExportRecord relation
    storeSessions,    \* Session relation (status per export session)
    auditLog,         \* AuditEvent relation, append only
    \* ---- App state of the history view ----
    historyBatches,   \* ExportBatch[]: the export ids listed
    historyRows,      \* TableRow[]
    historyError,     \* string | null
    historyLoading,   \* boolean
    selectedExportId, \* string | null
    histories,        \* running loadHistory and fetchExportRows calls
    \* ---- EventSetup local state (mounted only in the setup view) ----
    eventName,        \* the event name field
    columns,          \* string[], each name a sequence of characters
    newCol            \* the column field, a sequence of characters

appVars    == <<view, session, file, sessionStats, captureNotice, isProcessing,
                rows, statusMessage, bootError, isBooting>>
verifyVars == <<vrows, edits>>
reviewVars == <<rotation, isSubmitting, reviewError>>
asyncVars  == <<boots, extracts, exports>>
storeVars  == <<storeRows, exportRecords, storeSessions, auditLog>>
historyVars == <<historyBatches, historyRows, historyError, historyLoading,
                 selectedExportId, histories>>
setupVars  == <<eventName, columns, newCol>>
vars       == <<appVars, verifyVars, reviewVars, asyncVars, storeVars, historyVars,
                setupVars>>

(***************************************************************************)
(* Bounds of the model.                                                    *)
(***************************************************************************)
MaxEdits    == 1   \* cell edits and added rows the user makes in all
MaxBatches  == 2   \* row batches the store accepts before it is full
MaxPhotos   == 2   \* photos saved in one session before the user stops exporting
MaxInflight == 2   \* concurrent calls of one kind the model follows
MaxHistory  == 2   \* concurrent history requests the model follows
MaxPending  == 1   \* of these, beside the capture and export flow

(***************************************************************************)
(* Values.                                                                 *)
(***************************************************************************)
Null == "null"

NullSession == [eventName |-> "", columns |-> <<>>]
NullFile    == [name |-> "", turns |-> 0, type |-> "", size |-> "empty"]
NullNotice  == [kind |-> Null, n |-> 0]

EventNames  == {"E1"}
\* The event of another session, set up after the first was ended.
OtherEventNames == {"E2"}
ColumnLists == {<<"Name", "Phone">>}
\* A photo of a register: a File with its name, MIME type and size; turns
\* is how far its image is turned against the photo as taken.
Files       == {[name |-> "a.jpg", turns |-> 0, type |-> "image/jpeg",
                 size |-> "ok"]}

\* Other files the file picker or a drop can hand over: not an image, an
\* image above the documented size cap, an image file without content.
OtherFiles ==
    {[name |-> "notes.txt", turns |-> 0, type |-> "text/plain", size |-> "ok"],
     [name |-> "big.jpg", turns |-> 0, type |-> "image/jpeg", size |-> "oversize"],
     [name |-> "empty.jpg", turns |-> 0, type |-> "image/jpeg", size |-> "empty"]}

\* The browser can load the file as an image.
Decodable(f) == f.type = "image/jpeg" /\ f.size # "empty"

\* The value a user types into a cell.
EditValue == "x"

\* Absent request fields: JSON.stringify writes only the fields it is given.
NoKey       == "absent"
NoSessionId == "absent"

Range(s) == {s[i] : i \in DOMAIN s}

RemoveAt(s, i) == SubSeq(s, 1, i - 1) \o SubSeq(s, i + 1, Len(s))

\* Object.keys(row) without '__meta'.
Keys(row) == DOMAIN row \ {"__meta"}

\* row[col] = value on a copy of the row.
Put(row, col, value) ==
    [c \in DOMAIN row \cup {col} |-> IF c = col THEN value ELSE row[c]]


(***************************************************************************)
(* Which screen renderView shows.                                          *)
(***************************************************************************)
\* case 'verify': session is set and the processing spinner is not shown.
VerificationMounted ==
    view = "verify" /\ session # NullSession /\ ~isProcessing

\* case 'review': if (!session || !file) return null.
ReviewMounted ==
    view = "review" /\ session # NullSession /\ file # NullFile

\* VerificationScreen: useState(initialRows || []) when it is mounted, and the
\* effect on [initialRows] that copies a changed, non-empty initialRows.
SyncVerification ==
    /\ vrows' = IF ~VerificationMounted' THEN <<>>
                ELSE IF ~VerificationMounted THEN rows'
                ELSE IF rows' # rows /\ Len(rows') > 0 THEN rows'
                ELSE vrows
    /\ UNCHANGED edits

\* ReviewScreen: its hooks start at rotation 0, not submitting, no error.
SyncReview ==
    LET kept == ReviewMounted' /\ ReviewMounted
    IN  /\ rotation' = IF kept THEN rotation ELSE 0
        /\ isSubmitting' = IF kept THEN isSubmitting ELSE FALSE
        /\ reviewError' = IF kept THEN reviewError ELSE Null

\* EventSetup's useState initial values: the form as it is when the screen
\* mounts, and what the model keeps while the screen is not mounted.
DefaultColumns == << <<"N", "a", "m", "e">>, <<"P", "h", "o", "n", "e">> >>

SetupUnmounted ==
    /\ eventName = ""
    /\ columns = DefaultColumns
    /\ newCol = <<>>

\* The setup screen leaves the page: its state is dropped.
UnmountSetup ==
    /\ eventName' = ""
    /\ columns' = DefaultColumns
    /\ newCol' = <<>>

Init ==
    /\ view = "booting"
    /\ session = NullSession
    /\ file = NullFile
    /\ sessionStats = [photosSaved |-> 0, rowsSaved |-> 0]
    /\ captureNotice = NullNotice
    /\ isProcessing = FALSE
    /\ rows = <<>>
    /\ statusMessage = Null
    /\ bootError = Null
    /\ isBooting = FALSE
    /\ vrows = <<>>
    /\ edits = 0
    /\ rotation = 0
    /\ isSubmitting = FALSE
    /\ reviewError = Null
    /\ boots = <<>>
    /\ extracts = <<>>
    /\ exports = <<>>
    /\ storeRows = <<>>
    /\ exportRecords = <<>>
    /\ storeSessions = <<>>
    /\ auditLog = <<>>
    /\ historyBatches = <<>>
    /\ historyRows = <<>>
    /\ historyError = Null
    /\ historyLoading = FALSE
    /\ selectedExportId = Null
    /\ histories = <<>>
    /\ SetupUnmounted

(***************************************************************************)
(* Startup gate: bootstrapEngine.                                          *)
(***************************************************************************)
maxAttempts == 3

\* The messages a failed attempt can carry: `Warmup failed (${status})`, the
\* message of a rejected fetch, and the missing ok flag.
WarmupMessages ==
    {"Warmup failed (503)", "Failed to fetch",
     "Warmup endpoint did not report ready state."}

\* bootstrapEngine behind a 'Retry Startup' button that is never disabled.
BootstrapEngineAnyTime ==
    /\ view = "booting"
    /\ Len(boots) < MaxInflight
    /\ isBooting' = TRUE
    /\ bootError' = Null
    /\ boots' = Append(boots, 1)
    /\ UNCHANGED <<view, session, file, sessionStats, captureNotice,
                   isProcessing, rows, statusMessage>>
    /\ UNCHANGED <<verifyVars, reviewVars, extracts, exports, storeVars, setupVars, historyVars>>

\* The mount effect, or the 'Retry Startup' button (disabled while isBooting).
BootstrapEngine ==
    /\ view = "booting"
    /\ ~isBooting
    /\ Len(boots) < MaxInflight
    /\ isBooting' = TRUE
    /\ bootError' = Null
    /\ boots' = Append(boots, 1)
    /\ UNCHANGED <<view, session, file, sessionStats, captureNotice,
                   isProcessing, rows, statusMessage>>
    /\ UNCHANGED <<verifyVars, reviewVars, extracts, exports, storeVars, setupVars, historyVars>>

\* POST /warmup answered ok with ok = true.
WarmupOk(i) ==
    /\ i \in DOMAIN boots
    /\ view' = "setup"
    /\ isBooting' = FALSE
    /\ boots' = RemoveAt(boots, i)
    /\ UNCHANGED <<session, file, sessionStats, captureNotice, isProcessing,
                   rows, statusMessage, bootError>>
    /\ SyncVerification
    /\ SyncReview
    /\ UNCHANGED <<extracts, exports, storeVars, setupVars, historyVars>>

\* A failed warmup that lets the user on to the setup view after the last
\* attempt.
WarmupFailProceeds(i, message) ==
    /\ i \in DOMAIN boots
    /\ IF boots[i] = maxAttempts
       THEN /\ bootError' = message
            /\ isBooting' = FALSE
            /\ boots' = RemoveAt(boots, i)
            /\ view' = "setup"
       ELSE /\ boots' = [boots EXCEPT ![i] = @ + 1]
            /\ UNCHANGED <<bootError, isBooting, view>>
    /\ UNCHANGED <<session, file, sessionStats, captureNotice,
                   isProcessing, rows, statusMessage>>
    /\ UNCHANGED <<verifyVars, reviewVars, extracts, exports, storeVars, setupVars, historyVars>>

\* A failed warmup that tries once more after the third attempt.
WarmupFailOnceMore(i, message) ==
    /\ i \in DOMAIN boots
    /\ IF boots[i] = maxAttempts + 1
       THEN /\ bootError' = message
            /\ isBooting' = FALSE
            /\ boots' = RemoveAt(boots, i)
       ELSE /\ boots' = [boots EXCEPT ![i] = @ + 1]
            /\ UNCHANGED <<bootError, isBooting>>
    /\ UNCHANGED <<view, session, file, sessionStats, captureNotice,
                   isProcessing, rows, statusMessage>>
    /\ UNCHANGED <<verifyVars, reviewVars, extracts, exports, storeVars, setupVars, historyVars>>

\* fetch or json() rejected, the response was not ok, or ok was not reported;
\* message is the message of the error thrown in this attempt.
WarmupFail(i, message) ==
    /\ i \in DOMAIN boots
    /\ IF boots[i] = maxAttempts
       THEN /\ bootError' = message
            /\ isBooting' = FALSE
            /\ boots' = RemoveAt(boots, i)
       ELSE /\ boots' = [boots EXCEPT ![i] = @ + 1]
            /\ UNCHANGED <<bootError, isBooting>>
    /\ UNCHANGED <<view, session, file, sessionStats, captureNotice,
                   isProcessing, rows, statusMessage>>
    /\ UNCHANGED <<verifyVars, reviewVars, extracts, exports, storeVars, setupVars, historyVars>>

(***************************************************************************)
(* Session setup and the capture screen.                                   *)
(***************************************************************************)
\* handleSetupComplete without setSessionStats: the counters of the session
\* before go on.
handleSetupCompleteKeepsStats(name, cols) ==
    /\ view = "setup"
    /\ name # "" /\ Len(cols) > 0
    /\ session' = [eventName |-> name, columns |-> cols]
    /\ UNCHANGED sessionStats
    /\ captureNotice' = NullNotice
    /\ view' = "capture"
    /\ UNCHANGED <<file, isProcessing, rows, statusMessage, bootError, isBooting>>
    /\ SyncVerification
    /\ SyncReview
    /\ UNCHANGED <<asyncVars, storeVars, historyVars>>
    /\ UnmountSetup

\* EventSetup's 'Initialize Session' button: disabled unless the event name
\* is non-empty and there is at least one column.
handleSetupComplete(name, cols) ==
    /\ view = "setup"
    /\ name # "" /\ Len(cols) > 0
    /\ session' = [eventName |-> name, columns |-> cols]
    /\ sessionStats' = [photosSaved |-> 0, rowsSaved |-> 0]
    /\ captureNotice' = NullNotice
    /\ view' = "capture"
    /\ UNCHANGED <<file, isProcessing, rows, statusMessage, bootError, isBooting>>
    /\ SyncVerification
    /\ SyncReview
    /\ UNCHANGED <<asyncVars, storeVars, historyVars>>
    /\ UnmountSetup

(***************************************************************************)
(* The setup screen's form: EventSetup.                                    *)
(***************************************************************************)
\* The characters String.prototype.trim strips, as far as the user types them.
Whitespace == {" ", "\t"}

\* String.prototype.trim: s without its leading and trailing whitespace.
trim(s) ==
    LET kept == {k \in 1..Len(s) : s[k] \notin Whitespace}
    IN  IF kept = {} THEN <<>>
        ELSE SubSeq(s, CHOOSE k \in kept : \A j \in kept : k <= j,
                       CHOOSE k \in kept : \A j \in kept : k >= j)

\* The string a sequence of characters spells.
RECURSIVE Text(_)
Text(chars) == IF chars = <<>> THEN "" ELSE Head(chars) \o Text(Tail(chars))

\* The column list as the string[] handed to onComplete.
NamesOf(cols) == [k \in 1..Len(cols) |-> Text(cols[k])]

\* What the user types into the column field: nothing, blanks, a new name
\* bare and padded, a name of the default list padded, a name with an inner
\* blank.
TypedColumns ==
    {<<>>, <<" ">>, <<"\t", " ">>, <<"I", "D">>, <<" ", "I", "D", " ">>,
     <<"N", "a", "m", "e", " ">>, <<"A", " ", "B">>}

\* What the user types into the event name field.
TypedEventNames == EventNames \cup {"", " "}

\* onChange of the event name field.
setEventName(value) ==
    /\ view = "setup"
    /\ eventName' = value
    /\ UNCHANGED <<columns, newCol>>
    /\ UNCHANGED <<appVars, verifyVars, reviewVars, asyncVars, storeVars, historyVars>>

\* onChange of the column field.
setNewCol(value) ==
    /\ view = "setup"
    /\ newCol' = value
    /\ UNCHANGED <<eventName, columns>>
    /\ UNCHANGED <<appVars, verifyVars, reviewVars, asyncVars, storeVars, historyVars>>

\* addColumn that tests and stores the field as typed.
addColumnAsTyped ==
    /\ view = "setup"
    /\ IF newCol # <<>> /\ newCol \notin Range(columns)
       THEN /\ columns' = Append(columns, newCol)
            /\ newCol' = <<>>
       ELSE UNCHANGED <<columns, newCol>>
    /\ UNCHANGED eventName
    /\ UNCHANGED <<appVars, verifyVars, reviewVars, asyncVars, storeVars, historyVars>>

\* The Add button, or Enter in the column field.
addColumn ==
    /\ view = "setup"
    /\ IF trim(newCol) # <<>> /\ trim(newCol) \notin Range(columns)
       THEN /\ columns' = Append(columns, trim(newCol))
            /\ newCol' = <<>>
       ELSE UNCHANGED <<columns, newCol>>
    /\ UNCHANGED eventName
    /\ UNCHANGED <<appVars, verifyVars, reviewVars, asyncVars, storeVars, historyVars>>

\* The remove button of the chip of col.
removeColumn(col) ==
    /\ view = "setup"
    /\ col \in Range(columns)
    /\ columns' = SelectSeq(columns, LAMBDA c : c # col)
    /\ UNCHANGED <<eventName, newCol>>
    /\ UNCHANGED <<appVars, verifyVars, reviewVars, asyncVars, storeVars, historyVars>>

\* The 'Initialize Session' button: onComplete(eventName, columns).
InitializeSession == handleSetupComplete(eventName, NamesOf(columns))

\* Selecting an image without setFile(selectedFile).
handleImageSelectedNoFile(selectedFile) ==
    /\ view = "capture"
    /\ UNCHANGED file
    /\ statusMessage' = Null
    /\ rows' = <<>>
    /\ captureNotice' = NullNotice
    /\ view' = "review"
    /\ UNCHANGED <<session, sessionStats, isProcessing, bootError, isBooting>>
    /\ SyncVerification
    /\ SyncReview
    /\ UNCHANGED <<asyncVars, storeVars, setupVars, historyVars>>

\* Selecting an image starts its extraction at once, without the review.
handleImageSelectedExtracts(selectedFile) ==
    /\ view = "capture"
    /\ Len(extracts) < MaxInflight
    /\ file' = selectedFile
    /\ statusMessage' = Null
    /\ rows' = <<>>
    /\ captureNotice' = NullNotice
    /\ view' = "verify"
    /\ isProcessing' = TRUE
    /\ extracts' = Append(extracts, [phase |-> "fetching", file |-> selectedFile,
                                    turns |-> 0, session |-> session,
                                    ok |-> FALSE])
    /\ UNCHANGED <<session, sessionStats, bootError, isBooting>>
    /\ SyncVerification
    /\ SyncReview
    /\ UNCHANGED <<boots, exports, storeVars, setupVars, historyVars>>

\* CaptureScreen handleDrop / handleChange -> onImageSelected.
handleImageSelected(selectedFile) ==
    /\ view = "capture"
    /\ file' = selectedFile
    /\ statusMessage' = Null
    /\ rows' = <<>>
    /\ captureNotice' = NullNotice
    /\ view' = "review"
    /\ UNCHANGED <<session, sessionStats, isProcessing, bootError, isBooting>>
    /\ SyncVerification
    /\ SyncReview
    /\ UNCHANGED <<asyncVars, storeVars, setupVars, historyVars>>

\* resetExtractionState without setRows([]).
resetExtractionStateKeepsRows ==
    /\ file' = NullFile
    /\ UNCHANGED rows
    /\ statusMessage' = Null

\* setFile(null); setRows([]); setStatusMessage(null).
resetExtractionState ==
    /\ file' = NullFile
    /\ rows' = <<>>
    /\ statusMessage' = Null

\* Ending the session without setSession(null).
EndSessionKeepsSession ==
    /\ resetExtractionState
    /\ UNCHANGED session
    /\ captureNotice' = NullNotice
    /\ view' = "setup"

\* handleEndSession past its guards: resetExtractionState(); setSession(null);
\* setCaptureNotice(null); setView('setup').
EndSessionEffect ==
    /\ resetExtractionState
    /\ session' = NullSession
    /\ captureNotice' = NullNotice
    /\ view' = "setup"

\* handleEndSession that ends the session whatever the confirm dialog says.
handleEndSessionNoConfirm(confirmed) ==
    /\ view = "capture"
    /\ IF session = NullSession
       THEN UNCHANGED <<file, rows, statusMessage, session, captureNotice, view>>
       ELSE EndSessionEffect
    /\ UNCHANGED <<sessionStats, isProcessing, bootError, isBooting>>
    /\ SyncVerification
    /\ SyncReview
    /\ UNCHANGED <<asyncVars, storeVars, setupVars, historyVars>>

\* The capture screen's 'End Session' button: handleEndSession(false).
handleEndSession(confirmed) ==
    /\ view = "capture"
    /\ IF session = NullSession \/ ~confirmed
       THEN UNCHANGED <<file, rows, statusMessage, session, captureNotice, view>>
       ELSE EndSessionEffect
    /\ UNCHANGED <<sessionStats, isProcessing, bootError, isBooting>>
    /\ SyncVerification
    /\ SyncReview
    /\ UNCHANGED <<asyncVars, storeVars, setupVars, historyVars>>

(***************************************************************************)
(* The review screen.                                                      *)
(***************************************************************************)
\* const turns = ((quarterTurns % 4) + 4) % 4; if (turns === 0) return file;
\* otherwise a new File holding the image drawn rotated.
rotateImageFile(f, quarterTurns) ==
    LET turns == ((quarterTurns % 4) + 4) % 4
    IN  IF turns = 0 THEN f
        ELSE [f EXCEPT !.turns = (f.turns + turns) % 4]

RotateLeft ==
    /\ ReviewMounted /\ ~isSubmitting
    /\ rotation' = (rotation + 3) % 4
    /\ UNCHANGED <<isSubmitting, reviewError>>
    /\ UNCHANGED <<appVars, verifyVars, asyncVars, storeVars, setupVars, historyVars>>

\* Rotate Right turning the image by a half turn.
RotateRightHalfTurn ==
    /\ ReviewMounted /\ ~isSubmitting
    /\ rotation' = (rotation + 2) % 4
    /\ UNCHANGED <<isSubmitting, reviewError>>
    /\ UNCHANGED <<appVars, verifyVars, asyncVars, storeVars, setupVars, historyVars>>

RotateRight ==
    /\ ReviewMounted /\ ~isSubmitting
    /\ rotation' = (rotation + 1) % 4
    /\ UNCHANGED <<isSubmitting, reviewError>>
    /\ UNCHANGED <<appVars, verifyVars, asyncVars, storeVars, setupVars, historyVars>>

\* onRetake without setFile(null).
RetakeKeepsFile ==
    /\ ReviewMounted /\ ~isSubmitting
    /\ view' = "capture"
    /\ UNCHANGED <<session, file, sessionStats, captureNotice, isProcessing, rows,
                   statusMessage, bootError, isBooting>>
    /\ SyncVerification
    /\ SyncReview
    /\ UNCHANGED <<asyncVars, storeVars, setupVars, historyVars>>

\* onRetake: setFile(null); setView('capture').
Retake ==
    /\ ReviewMounted /\ ~isSubmitting
    /\ file' = NullFile
    /\ view' = "capture"
    /\ UNCHANGED <<session, sessionStats, captureNotice, isProcessing, rows,
                   statusMessage, bootError, isBooting>>
    /\ SyncVerification
    /\ SyncReview
    /\ UNCHANGED <<asyncVars, storeVars, setupVars, historyVars>>

\* handleProceed up to its first await: the call keeps the imageFile and the
\* rotation it was started with, and the session of the render whose
\* onProceed it will call.
handleProceed ==
    /\ ReviewMounted /\ ~isSubmitting
    /\ Len(extracts) < MaxInflight
    /\ isSubmitting' = TRUE
    /\ reviewError' = Null
    /\ extracts' = Append(extracts, [phase |-> "rotating", file |-> file,
                                    turns |-> rotation, session |-> session,
                                    ok |-> FALSE])
    /\ UNCHANGED rotation
    /\ UNCHANGED <<appVars, verifyVars, boots, exports, storeVars, setupVars, historyVars>>

\* rotateImageFile rejected (image not loadable, no canvas context, no blob):
\* possible only when there is something to rotate.
RotateFail(i) ==
    /\ i \in DOMAIN extracts
    /\ extracts[i].phase = "rotating"
    /\ rotateImageFile(extracts[i].file, extracts[i].turns) # extracts[i].file
    /\ extracts' = RemoveAt(extracts, i)
    /\ isSubmitting' = FALSE
    /\ reviewError' = IF ReviewMounted THEN "Could not rotate image" ELSE reviewError
    /\ UNCHANGED rotation
    /\ UNCHANGED <<appVars, verifyVars, boots, exports, storeVars, setupVars, historyVars>>

(***************************************************************************)
(* runExtraction.                                                          *)
(***************************************************************************)
\* runExtraction without setIsProcessing(true): no spinner is shown while the
\* request is in flight.
runExtractionNoSpinner(i) ==
    /\ i \in DOMAIN extracts
    /\ extracts[i].phase = "rotating"
    /\ extracts[i].turns = 0 \/ Decodable(extracts[i].file)
    /\ IF extracts[i].session = NullSession
       THEN /\ extracts' = RemoveAt(extracts, i)
            /\ UNCHANGED <<file, view, isProcessing, statusMessage, rows,
                           captureNotice>>
       ELSE /\ file' = rotateImageFile(extracts[i].file, extracts[i].turns)
            /\ view' = "verify"
            /\ UNCHANGED isProcessing
            /\ statusMessage' = Null
            /\ rows' = <<>>
            /\ captureNotice' = NullNotice
            /\ extracts' = [extracts EXCEPT
                               ![i].phase = "fetching",
                               ![i].file = rotateImageFile(extracts[i].file,
                                                           extracts[i].turns)]
    /\ UNCHANGED <<session, sessionStats, bootError, isBooting>>
    /\ SyncVerification
    /\ SyncReview
    /\ UNCHANGED <<boots, exports, storeVars, setupVars, historyVars>>

\* runExtraction(selectedFile) up to the fetch of POST /extract, called by
\* handleProceed once rotateImageFile has resolved: it resolves without
\* loading the image when there is nothing to turn.  The request's form data
\* holds the reviewed file and the session's columns.
runExtraction(i) ==
    /\ i \in DOMAIN extracts
    /\ extracts[i].phase = "rotating"
    /\ extracts[i].turns = 0 \/ Decodable(extracts[i].file)
    /\ IF extracts[i].session = NullSession
       THEN /\ extracts' = RemoveAt(extracts, i)
            /\ UNCHANGED <<file, view, isProcessing, statusMessage, rows,
                           captureNotice>>
       ELSE /\ file' = rotateImageFile(extracts[i].file, extracts[i].turns)
            /\ view' = "verify"
            /\ isProcessing' = TRUE
            /\ statusMessage' = Null
            /\ rows' = <<>>
            /\ captureNotice' = NullNotice
            /\ extracts' = [extracts EXCEPT
                               ![i].phase = "fetching",
                               ![i].file = rotateImageFile(extracts[i].file,
                                                           extracts[i].turns)]
    /\ UNCHANGED <<session, sessionStats, bootError, isBooting>>
    /\ SyncVerification
    /\ SyncReview
    /\ UNCHANGED <<boots, exports, storeVars, setupVars, historyVars>>

\* The catch block without setStatusMessage(message): the failure is not
\* reported.
ExtractCatchSilent(i, message) ==
    /\ statusMessage' = Null
    /\ rows' = <<>>
    /\ isProcessing' = FALSE
    /\ extracts' = RemoveAt(extracts, i)
    /\ UNCHANGED <<view, session, file, sessionStats, captureNotice,
                   bootError, isBooting>>
    /\ SyncVerification
    /\ SyncReview
    /\ UNCHANGED <<boots, exports, storeVars, setupVars, historyVars>>

\* catch (error) { setStatusMessage(message); setRows([]) } finally
\* { setIsProcessing(false) }
ExtractCatch(i, message) ==
    /\ statusMessage' = message
    /\ rows' = <<>>
    /\ isProcessing' = FALSE
    /\ extracts' = RemoveAt(extracts, i)
    /\ UNCHANGED <<view, session, file, sessionStats, captureNotice,
                   bootError, isBooting>>
    /\ SyncVerification
    /\ SyncReview
    /\ UNCHANGED <<boots, exports, storeVars, setupVars, historyVars>>

\* The timer fires while fetch is pending: controller.abort(), AbortError.
ExtractTimeout(i) ==
    /\ i \in DOMAIN extracts
    /\ extracts[i].phase = "fetching"
    /\ ExtractCatch(i, "Extraction timed out")

\* fetch rejects with TypeError 'Failed to fetch'.
ExtractUnreachable(i) ==
    /\ i \in DOMAIN extracts
    /\ extracts[i].phase = "fetching"
    /\ ExtractCatch(i, "Cannot reach backend")

\* fetch resolves with the response's status; the timer is cleared.
ExtractHeaders(i, ok) ==
    /\ i \in DOMAIN extracts
    /\ extracts[i].phase = "fetching"
    /\ extracts' = [extracts EXCEPT ![i].phase = "body", ![i].ok = ok]
    /\ UNCHANGED <<appVars, verifyVars, reviewVars, boots, exports, storeVars, setupVars, historyVars>>

\* !response.ok: throw new Error(`Extraction failed (${status}): ${text}`).
ExtractNotOk(i) ==
    /\ i \in DOMAIN extracts
    /\ extracts[i].phase = "body" /\ ~extracts[i].ok
    /\ ExtractCatch(i, "Extraction failed (status)")

\* response.json() rejects: the body is not JSON, or the connection broke.
ExtractBodyError(i) ==
    /\ i \in DOMAIN extracts
    /\ extracts[i].phase = "body" /\ extracts[i].ok
    /\ ExtractCatch(i, "Body error")

(***************************************************************************)
(* The bodies POST /extract may answer with (ExtractResponse): a table     *)
(* object with optional headers and rows, or top-level rows and headers,   *)
(* and an optional error text.                                             *)
(***************************************************************************)
TableBody(headers, rs, err) ==
    [hasTable |-> TRUE, tableRowsIsArray |-> TRUE, tableRows |-> rs,
     tableHeadersIsArray |-> TRUE, tableHeaders |-> headers,
     rowsIsArray |-> FALSE, rows |-> <<>>, headers |-> <<>>, error |-> err]

RowsBody(rs) ==
    [hasTable |-> FALSE, tableRowsIsArray |-> FALSE, tableRows |-> <<>>,
     tableHeadersIsArray |-> FALSE, tableHeaders |-> <<>>,
     rowsIsArray |-> TRUE, rows |-> rs, headers |-> <<>>, error |-> Null]

ExtractBodies ==
    { TableBody(<<"Name", "Phone">>, <<[Name |-> "Ada", Phone |-> "123"]>>, Null),
      TableBody(<<"Name">>, <<[Name |-> "Ada"]>>, Null),
      TableBody(<<>>, <<>>, Null),
      TableBody(<<>>, <<>>, "Backend error"),
      RowsBody(<<[Name |-> "Ada", Phone |-> "123"]>>),
      \* neither a table nor top-level rows
      [RowsBody(<<>>) EXCEPT !.rowsIsArray = FALSE, !.headers = <<"Name">>],
      \* a table object without a rows array, beside top-level rows
      [RowsBody(<<[Name |-> "Ada", Phone |-> "123"]>>) EXCEPT !.hasTable = TRUE] }

\* An answer whose rows have a key the session's columns do not name.
OtherBodies ==
    { RowsBody(<<[Name |-> "Ada", Email |-> "a@x"]>>) }

\* A table taken from the answer although no rows array is there.
TableOfLenient(data) ==
    [present |-> TRUE, rowsIsArray |-> TRUE,
     rows |-> IF data.hasTable THEN data.tableRows ELSE data.rows,
     headersIsArray |-> TRUE,
     headers |-> IF data.hasTable THEN data.tableHeaders ELSE data.headers]

\* const table = data?.table ?? (Array.isArray(data?.rows)
\*     ? { rows: data.rows, headers: data.headers || [] } : null);
\* present is FALSE for null.
TableOf(data) ==
    IF data.hasTable
    THEN [present |-> TRUE, rowsIsArray |-> data.tableRowsIsArray,
          rows |-> data.tableRows, headersIsArray |-> data.tableHeadersIsArray,
          headers |-> data.tableHeaders]
    ELSE IF data.rowsIsArray
    THEN [present |-> TRUE, rowsIsArray |-> TRUE, rows |-> data.rows,
          headersIsArray |-> TRUE, headers |-> data.headers]
    ELSE [present |-> FALSE, rowsIsArray |-> FALSE, rows |-> <<>>,
          headersIsArray |-> FALSE, headers |-> <<>>]

\* setSession(prev => prev ? { ...prev, columns: apiHeaders } : null) when the
\* answer names headers.
SessionAfterExtract(prev, apiHeaders) ==
    IF Len(apiHeaders) > 0 /\ prev # NullSession
    THEN [prev EXCEPT !.columns = apiHeaders]
    ELSE prev

\* The try block ignoring the error text of an answer without rows.
ExtractDataIgnoresError(i, data) ==
    /\ i \in DOMAIN extracts
    /\ extracts[i].phase = "body" /\ extracts[i].ok
    /\ LET table == TableOf(data)
       IN  IF table.present /\ table.rowsIsArray
           THEN LET validRows  == table.rows
                    apiHeaders == IF table.headersIsArray THEN table.headers
                                  ELSE <<>>
                IN  /\ session' = SessionAfterExtract(session, apiHeaders)
                    /\ statusMessage' =
                          IF Len(validRows) = 0
                          THEN "No rows were extracted"
                          ELSE statusMessage
                    /\ rows' = validRows
           ELSE /\ statusMessage' = "Extraction response format was invalid"
                /\ rows' = <<>>
                /\ UNCHANGED session
    /\ isProcessing' = FALSE
    /\ extracts' = RemoveAt(extracts, i)
    /\ UNCHANGED <<view, file, sessionStats, captureNotice, bootError, isBooting>>
    /\ SyncVerification
    /\ SyncReview
    /\ UNCHANGED <<boots, exports, storeVars, setupVars, historyVars>>

\* response.json() resolved with data: the body of the try block after it.
ExtractData(i, data) ==
    /\ i \in DOMAIN extracts
    /\ extracts[i].phase = "body" /\ extracts[i].ok
    /\ LET table == TableOf(data)
       IN  IF table.present /\ table.rowsIsArray
           THEN LET validRows  == table.rows
                    apiHeaders == IF table.headersIsArray THEN table.headers
                                  ELSE <<>>
                IN  /\ session' = SessionAfterExtract(session, apiHeaders)
                    /\ statusMessage' =
                          IF Len(validRows) = 0
                          THEN (IF data.error # Null THEN data.error
                                ELSE "No rows were extracted")
                          ELSE statusMessage
                    /\ rows' = validRows
           ELSE /\ statusMessage' = "Extraction response format was invalid"
                /\ rows' = <<>>
                /\ UNCHANGED session
    /\ isProcessing' = FALSE
    /\ extracts' = RemoveAt(extracts, i)
    /\ UNCHANGED <<view, file, sessionStats, captureNotice, bootError, isBooting>>
    /\ SyncVerification
    /\ SyncReview
    /\ UNCHANGED <<boots, exports, storeVars, setupVars, historyVars>>

(***************************************************************************)
(* The verification screen.                                                *)
(***************************************************************************)
\* const isSaving = statusMessage?.includes("Saving") || ...includes("Exporting")
isSaving == statusMessage = "Saving to database..."

\* The columns shown: the keys of the first row, else the session's columns.
ShownColumns ==
    IF Len(vrows) > 0 THEN Keys(vrows[1]) ELSE Range(session.columns)

\* updateCell: newRows = [...rows]; newRows[rowIndex][col] = value.  The row
\* objects are those of App's rows array, which the assignment changes too;
\* rows added on the screen exist only in the screen's copy.
updateCell(rowIndex, col) ==
    /\ VerificationMounted /\ ~isSaving
    /\ edits < MaxEdits
    /\ rowIndex \in DOMAIN vrows
    /\ col \in ShownColumns
    /\ vrows' = [vrows EXCEPT ![rowIndex] = Put(@, col, EditValue)]
    /\ rows' = IF rowIndex \in DOMAIN rows
               THEN [rows EXCEPT ![rowIndex] = Put(@, col, EditValue)]
               ELSE rows
    /\ edits' = edits + 1
    /\ UNCHANGED <<view, session, file, sessionStats, captureNotice,
                   isProcessing, statusMessage, bootError, isBooting>>
    /\ UNCHANGED <<reviewVars, asyncVars, storeVars, setupVars, historyVars>>

\* '+ Add Empty Row': setRows([...rows, {}]).
AddEmptyRow ==
    /\ VerificationMounted /\ ~isSaving
    /\ edits < MaxEdits
    /\ vrows' = Append(vrows, <<>>)
    /\ edits' = edits + 1
    /\ UNCHANGED <<appVars, reviewVars, asyncVars, storeVars, setupVars, historyVars>>

\* onBack leading to the review view.
VerifyBackToReview ==
    /\ VerificationMounted /\ ~isSaving
    /\ view' = "review"
    /\ UNCHANGED <<session, file, sessionStats, captureNotice, isProcessing,
                   rows, statusMessage, bootError, isBooting>>
    /\ SyncVerification
    /\ SyncReview
    /\ UNCHANGED <<asyncVars, storeVars, setupVars, historyVars>>

\* onBack: setView('capture').
VerifyBack ==
    /\ VerificationMounted /\ ~isSaving
    /\ view' = "capture"
    /\ UNCHANGED <<session, file, sessionStats, captureNotice, isProcessing,
                   rows, statusMessage, bootError, isBooting>>
    /\ SyncVerification
    /\ SyncReview
    /\ UNCHANGED <<asyncVars, storeVars, setupVars, historyVars>>

(***************************************************************************)
(* handleExport.                                                           *)
(***************************************************************************)
\* body: JSON.stringify({ eventName: session.eventName, rows: data }).  The
\* request holds no sessionId and no idempotencyKey field.
ExportRequestBody(sess, data) ==
    [eventName |-> sess.eventName, rows |-> data,
     sessionId |-> NoSessionId, idempotencyKey |-> NoKey]

\* handleExport without setIsProcessing(true): the verification screen stays
\* in place while the request is in flight.
handleExportNoSpinner(nextStep) ==
    /\ VerificationMounted
    /\ Len(exports) < MaxInflight
    /\ sessionStats.photosSaved < MaxPhotos
    /\ exports' = Append(exports,
                         [phase |-> "sent",
                          req |-> ExportRequestBody(session, vrows),
                          data |-> vrows, nextStep |-> nextStep,
                          attempts |-> 1,
                          session |-> session,
                          resp |-> [ok |-> FALSE, code |-> Null, rowsInserted |-> 0]])
    /\ UNCHANGED <<view, session, file, sessionStats, captureNotice, rows,
                   bootError, isBooting, isProcessing, statusMessage>>
    /\ SyncVerification
    /\ SyncReview
    /\ UNCHANGED <<boots, extracts, storeVars, setupVars, historyVars>>

\* onSaveAndContinue / onSaveAndEnd: handleExport(data, nextStep) up to the
\* fetch of POST /export-db; data is the screen's rows.  attempts counts the
\* fetches the call makes: handleExport has one, outside any loop.
handleExport(nextStep) ==
    /\ VerificationMounted /\ ~isSaving
    /\ Len(exports) < MaxInflight
    /\ sessionStats.photosSaved < MaxPhotos
    /\ isProcessing' = TRUE
    /\ statusMessage' = "Saving to database..."
    /\ exports' = Append(exports,
                         [phase |-> "sent",
                          req |-> ExportRequestBody(session, vrows),
                          data |-> vrows, nextStep |-> nextStep,
                          attempts |-> 1,
                          session |-> session,
                          resp |-> [ok |-> FALSE, code |-> Null, rowsInserted |-> 0]])
    /\ UNCHANGED <<view, session, file, sessionStats, captureNotice, rows,
                   bootError, isBooting>>
    /\ SyncVerification
    /\ SyncReview
    /\ UNCHANGED <<boots, extracts, storeVars, setupVars, historyVars>>

\* The catch block counting the photo as saved although the export failed.
ExportCatchCounts(i) ==
    /\ statusMessage' = "Export failed. Please check console."
    /\ isProcessing' = FALSE
    /\ exports' = RemoveAt(exports, i)
    /\ sessionStats' = [sessionStats EXCEPT !.photosSaved = @ + 1]
    /\ UNCHANGED <<view, session, file, captureNotice, rows,
                   bootError, isBooting>>
    /\ SyncVerification
    /\ SyncReview
    /\ UNCHANGED <<boots, extracts, storeVars, setupVars, historyVars>>

\* The catch block dropping the selected file.
ExportCatchDropsFile(i) ==
    /\ statusMessage' = "Export failed. Please check console."
    /\ isProcessing' = FALSE
    /\ exports' = RemoveAt(exports, i)
    /\ file' = NullFile
    /\ UNCHANGED <<view, session, sessionStats, captureNotice, rows,
                   bootError, isBooting>>
    /\ SyncVerification
    /\ SyncReview
    /\ UNCHANGED <<boots, extracts, storeVars, setupVars, historyVars>>

\* The catch block without the finally block: the spinner stays.
ExportCatchKeepsSpinner(i) ==
    /\ statusMessage' = "Export failed. Please check console."
    /\ UNCHANGED isProcessing
    /\ exports' = RemoveAt(exports, i)
    /\ UNCHANGED <<view, session, file, sessionStats, captureNotice, rows,
                   bootError, isBooting>>
    /\ SyncVerification
    /\ SyncReview
    /\ UNCHANGED <<boots, extracts, storeVars, setupVars, historyVars>>

\* catch: alert(...); setStatusMessage("Export failed. Please check console.")
\* finally: setIsProcessing(false).
ExportCatch(i) ==
    /\ statusMessage' = "Export failed. Please check console."
    /\ isProcessing' = FALSE
    /\ exports' = RemoveAt(exports, i)
    /\ UNCHANGED <<view, session, file, sessionStats, captureNotice, rows,
                   bootError, isBooting>>
    /\ SyncVerification
    /\ SyncReview
    /\ UNCHANGED <<boots, extracts, storeVars, setupVars, historyVars>>

\* fetch rejects: the request never arrived, or the answer was lost.
ExportReject(i) ==
    /\ i \in DOMAIN exports
    /\ ExportCatch(i)

\* !response.ok: throw new Error(`Export failed: ${errorText}`).
ExportNotOk(i) ==
    /\ i \in DOMAIN exports
    /\ exports[i].phase = "answered" /\ ~exports[i].resp.ok
    /\ ExportCatch(i)

\* The try block after response.json() resolved with result; hasMessage says
\* whether result.message is set.
ExportOk(i, hasMessage) ==
    /\ i \in DOMAIN exports
    /\ exports[i].phase = "answered" /\ exports[i].resp.ok
    /\ LET call      == exports[i]
           savedRows == Len(call.data)
       IN  /\ sessionStats' =
                 [photosSaved |-> sessionStats.photosSaved + 1,
                  rowsSaved   |-> sessionStats.rowsSaved + savedRows]
           /\ IF call.nextStep = "continue"
              THEN /\ resetExtractionState
                   /\ captureNotice' =
                         IF hasMessage THEN [kind |-> "message", n |-> 0]
                         ELSE [kind |-> "saved", n |-> savedRows]
                   /\ view' = "capture"
                   /\ UNCHANGED session
              ELSE \* handleEndSession(true), with the session of the click
                   IF call.session = NullSession
                   THEN /\ statusMessage' = Null
                        /\ UNCHANGED <<file, rows, session, captureNotice, view>>
                   ELSE EndSessionEffect
    /\ isProcessing' = FALSE
    /\ exports' = RemoveAt(exports, i)
    /\ UNCHANGED <<bootError, isBooting>>
    /\ SyncVerification
    /\ SyncReview
    /\ UNCHANGED <<boots, extracts, storeVars, setupVars, historyVars>>

(***************************************************************************)
(* The export store behind POST /export-db.                                *)
(***************************************************************************)
\* requestHash: a stable hash over the row content, in order, and the event.
RequestHash(req) == <<req.eventName, req.rows>>

Store == [rows |-> storeRows, records |-> exportRecords,
          sessions |-> storeSessions, audit |-> auditLog]

\* The commit's four writes, in order; the first n of them applied to st.
ApplyWrites(st, req, n) ==
    LET exportId == Len(st.rows) + 1
        sid      == IF req.sessionId = NoSessionId
                    THEN Len(st.sessions) + 1 ELSE req.sessionId
        w1 == IF n >= 1
              THEN Append(st.rows, [exportId |-> exportId,
                                    eventName |-> req.eventName,
                                    rows |-> req.rows])
              ELSE st.rows
        w2 == IF n >= 2
              THEN Append(st.sessions, [id |-> sid, status |-> "exported",
                                        exportId |-> exportId])
              ELSE st.sessions
        w3 == IF n >= 3
              THEN Append(st.records, [idempotencyKey |-> req.idempotencyKey,
                                       sessionId |-> sid,
                                       requestHash |-> RequestHash(req),
                                       rowsInserted |-> Len(req.rows),
                                       exportId |-> exportId])
              ELSE st.records
        w4 == IF n >= 4
              THEN Append(st.audit, [sessionId |-> sid, action |-> "exported",
                                     exportId |-> exportId])
              ELSE st.audit
    IN  [rows |-> w1, records |-> w3, sessions |-> w2, audit |-> w4]


\* The number of writes of one commit.
CommitWrites == 4

\* The commit is one transaction: it takes effect when all its writes were
\* done, and a failure after `done` of them leaves the store as it was.
CommitTransaction(st, req, done) ==
    IF done = CommitWrites THEN ApplyWrites(st, req, CommitWrites) ELSE st

\* exportRows: look the idempotency key up; replay a recorded result, refuse
\* a key reused for other content, and commit otherwise.  A request without
\* a key has no record to be looked up under.
exportRows(st, req, done) ==
    LET prior == {k \in DOMAIN st.records :
                     st.records[k].idempotencyKey = req.idempotencyKey}
    IN  IF req.idempotencyKey # NoKey /\ prior # {}
        THEN LET rec == st.records[CHOOSE k \in prior : TRUE]
             IN  IF rec.requestHash = RequestHash(req)
                 THEN [store |-> st,
                       resp |-> [ok |-> TRUE, code |-> Null,
                                 rowsInserted |-> rec.rowsInserted]]
                 ELSE [store |-> st,
                       resp |-> [ok |-> FALSE, code |-> "IdempotencyConflict",
                                 rowsInserted |-> 0]]
        ELSE [store |-> CommitTransaction(st, req, done),
              resp |-> IF done = CommitWrites
                       THEN [ok |-> TRUE, code |-> Null,
                             rowsInserted |-> Len(req.rows)]
                       ELSE [ok |-> FALSE, code |-> "PersistenceError",
                             rowsInserted |-> 0]]

\* The store handles the request of call i; done is how far the commit gets
\* (CommitWrites: all the way).  A full store takes no further batch.
ServerExport(i, done) ==
    /\ i \in DOMAIN exports
    /\ exports[i].phase = "sent"
    /\ done = CommitWrites => Len(storeRows) < MaxBatches
    /\ LET out == exportRows(Store, exports[i].req, done)
       IN  /\ storeRows' = out.store.rows
           /\ exportRecords' = out.store.records
           /\ storeSessions' = out.store.sessions
           /\ auditLog' = out.store.audit
           /\ exports' = [exports EXCEPT ![i].phase = "answered",
                                         ![i].resp = out.resp]
    /\ UNCHANGED <<appVars, verifyVars, reviewVars, boots, extracts, historyVars,
                   setupVars>>

\* What the client can observe of any store: call i's request is answered,
\* ok or not.
ExportAnswered(i, ok) ==
    /\ i \in DOMAIN exports
    /\ exports[i].phase = "sent"
    /\ exports' = [exports EXCEPT
                      ![i].phase = "answered",
                      ![i].resp = [ok |-> ok,
                                   code |-> IF ok THEN Null ELSE "Error",
                                   rowsInserted |-> IF ok THEN Len(exports[i].req.rows)
                                                    ELSE 0]]
    /\ UNCHANGED <<appVars, verifyVars, reviewVars, boots, extracts, storeVars, setupVars, historyVars>>

(***************************************************************************)
(* The history view: openHistory, loadHistory, fetchExportRows.            *)
(***************************************************************************)
\* What GET /exports/{event} may list, and the rows
\* GET /exports/{event}/{id} may answer with.
ExportLists == {<<>>, <<"exp-1">>}

\* A list of two batches.
OtherLists == {<<"exp-1", "exp-2">>}

HistoryRowSets == {<<>>, <<[Name |-> "Ada", Phone |-> "123"]>>}

\* case 'history': if (!session) return null.
HistoryMounted == view = "history" /\ session # NullSession

\* Another history call starts: the calls in flight now overlap with it, and
\* what they were asked for is no longer the user's latest request.
Overlap(calls) ==
    [k \in DOMAIN calls |-> [calls[k] EXCEPT !.overlapped = TRUE,
                                             !.superseded = TRUE]]

\* loadHistory up to the fetch of GET /exports/{event}.  The call keeps the
\* session of the render that started it; overlapped records whether another
\* history call ran while this one was in flight, superseded whether one was
\* started after it.
loadHistory ==
    /\ session # NullSession
    /\ Len(histories) < MaxHistory
    /\ historyLoading' = TRUE
    /\ historyError' = Null
    /\ historyRows' = <<>>
    /\ selectedExportId' = Null
    /\ histories' = Append(Overlap(histories),
                           [kind |-> "load", phase |-> "list",
                            eventName |-> session.eventName,
                            list |-> <<>>, exportId |-> Null,
                            overlapped |-> histories # <<>>,
                            superseded |-> FALSE])
    /\ UNCHANGED historyBatches

\* The capture screen's 'View History' button: setView('history'); loadHistory().
openHistory ==
    /\ view = "capture"
    /\ view' = "history"
    /\ IF session = NullSession THEN UNCHANGED historyVars ELSE loadHistory
    /\ UNCHANGED <<session, file, sessionStats, captureNotice, isProcessing,
                   rows, statusMessage, bootError, isBooting>>
    /\ SyncVerification
    /\ SyncReview
    /\ UNCHANGED <<asyncVars, storeVars, setupVars>>

\* The history screen's 'Refresh' button: loadHistory().
HistoryRefresh ==
    /\ HistoryMounted
    /\ loadHistory
    /\ UNCHANGED <<appVars, verifyVars, reviewVars, asyncVars, storeVars, setupVars>>

\* The history screen's 'Back to Capture' button: setView('capture').
HistoryBack ==
    /\ HistoryMounted
    /\ view' = "capture"
    /\ UNCHANGED <<session, file, sessionStats, captureNotice, isProcessing,
                   rows, statusMessage, bootError, isBooting>>
    /\ SyncVerification
    /\ SyncReview
    /\ UNCHANGED <<asyncVars, storeVars, setupVars, historyVars>>

\* A batch button, shown when not loading: fetchExportRows(eventName, id) up
\* to its fetch, outside any try block.
SelectExport(exportId) ==
    /\ HistoryMounted /\ ~historyLoading
    /\ exportId \in Range(historyBatches)
    /\ Len(histories) < MaxHistory
    /\ histories' = Append(Overlap(histories),
                           [kind |-> "select", phase |-> "rows",
                            eventName |-> session.eventName,
                            list |-> <<>>, exportId |-> exportId,
                            overlapped |-> histories # <<>>,
                            superseded |-> FALSE])
    /\ UNCHANGED <<historyBatches, historyRows, historyError, historyLoading,
                   selectedExportId>>
    /\ UNCHANGED <<appVars, verifyVars, reviewVars, asyncVars, storeVars, setupVars>>

\* loadHistory's catch and finally: setHistoryError(message);
\* setHistoryBatches([]); setHistoryRows([]); setHistoryLoading(false).
HistoryCatch(i) ==
    /\ historyError' = "Failed to load exports"
    /\ historyBatches' = <<>>
    /\ historyRows' = <<>>
    /\ historyLoading' = FALSE
    /\ histories' = RemoveAt(histories, i)
    /\ UNCHANGED selectedExportId
    /\ UNCHANGED <<appVars, verifyVars, reviewVars, asyncVars, storeVars, setupVars>>

\* The list request fails: fetch rejects, the response is not ok, or its
\* body is not JSON.
HistoryListFail(i) ==
    /\ i \in DOMAIN histories
    /\ histories[i].phase = "list"
    /\ HistoryCatch(i)

\* The list request is answered with exportsList: setHistoryBatches, and for
\* a non-empty list fetchExportRows of its first batch up to its fetch;
\* for an empty list the finally block.
HistoryListOk(i, exportsList) ==
    /\ i \in DOMAIN histories
    /\ histories[i].phase = "list"
    /\ historyBatches' = exportsList
    /\ IF Len(exportsList) > 0
       THEN /\ histories' = [histories EXCEPT ![i].phase = "rows",
                                              ![i].list = exportsList,
                                              ![i].exportId = exportsList[1]]
            /\ UNCHANGED historyLoading
       ELSE /\ histories' = RemoveAt(histories, i)
            /\ historyLoading' = FALSE
    /\ UNCHANGED <<historyRows, historyError, selectedExportId>>
    /\ UNCHANGED <<appVars, verifyVars, reviewVars, asyncVars, storeVars, setupVars>>

\* The rows request fails.  Inside loadHistory the catch block handles it; a
\* call started by a batch button has no handler and changes nothing.
HistoryRowsFail(i) ==
    /\ i \in DOMAIN histories
    /\ histories[i].phase = "rows"
    /\ IF histories[i].kind = "load"
       THEN HistoryCatch(i)
       ELSE /\ histories' = RemoveAt(histories, i)
            /\ UNCHANGED <<historyBatches, historyRows, historyError,
                           historyLoading, selectedExportId>>
            /\ UNCHANGED <<appVars, verifyVars, reviewVars, asyncVars, storeVars, setupVars>>

\* fetchExportRows without setSelectedExportId(exportId).
HistoryRowsOkNoSelect(i, loadedRows) ==
    /\ i \in DOMAIN histories
    /\ histories[i].phase = "rows"
    /\ historyRows' = loadedRows
    /\ historyLoading' = IF histories[i].kind = "load" THEN FALSE
                         ELSE historyLoading
    /\ histories' = RemoveAt(histories, i)
    /\ UNCHANGED <<historyBatches, historyError, selectedExportId>>
    /\ UNCHANGED <<appVars, verifyVars, reviewVars, asyncVars, storeVars, setupVars>>

\* The rows request is answered with loadedRows: setHistoryRows(loadedRows);
\* setSelectedExportId(exportId); in loadHistory then the finally block.
HistoryRowsOk(i, loadedRows) ==
    /\ i \in DOMAIN histories
    /\ histories[i].phase = "rows"
    /\ historyRows' = loadedRows
    /\ selectedExportId' = histories[i].exportId
    /\ historyLoading' = IF histories[i].kind = "load" THEN FALSE
                         ELSE historyLoading
    /\ histories' = RemoveAt(histories, i)
    /\ UNCHANGED <<historyBatches, historyError>>
    /\ UNCHANGED <<appVars, verifyVars, reviewVars, asyncVars, storeVars, setupVars>>

\* The history view and its requests.
History ==
    \/ openHistory
    \/ HistoryRefresh
    \/ HistoryBack
    \/ \E exportId \in {"exp-1"} : SelectExport(exportId)
    \/ \E i \in 1..MaxHistory : HistoryListFail(i)
    \/ \E i \in 1..MaxHistory, exportsList \in ExportLists :
          HistoryListOk(i, exportsList)
    \/ \E i \in 1..MaxHistory : HistoryRowsFail(i)
    \/ \E i \in 1..MaxHistory, loadedRows \in HistoryRowSets :
          HistoryRowsOk(i, loadedRows)

(***************************************************************************)
(* The specifications: the client, handed any file and any answer, against *)
(* any server                                                              *)
(* (Spec), the client,                                                     *)
(* submitting its photos as taken, together with the export store          *)
(* (ExportSpec), and the client, submitting its photos as taken, with the  *)
(* history view, against any server (HistorySpec); the startup, the        *)
(* sessions and the history view alone (BrowseSpec).                       *)
(***************************************************************************)
Client ==
    \/ BootstrapEngine
    \/ \E i \in 1..MaxInflight : WarmupOk(i)
    \/ \E i \in 1..MaxInflight, message \in WarmupMessages : WarmupFail(i, message)
    \/ \E name \in EventNames, cols \in ColumnLists : handleSetupComplete(name, cols)
    \/ \E f \in Files : handleImageSelected(f)
    \/ \E confirmed \in BOOLEAN : handleEndSession(confirmed)
    \/ Retake
    \/ handleProceed
    \/ \E i \in 1..MaxInflight : runExtraction(i)
    \/ \E i \in 1..MaxInflight : ExtractTimeout(i)
    \/ \E i \in 1..MaxInflight : ExtractUnreachable(i)
    \/ \E i \in 1..MaxInflight, ok \in BOOLEAN : ExtractHeaders(i, ok)
    \/ \E i \in 1..MaxInflight : ExtractNotOk(i)
    \/ \E i \in 1..MaxInflight : ExtractBodyError(i)
    \/ \E i \in 1..MaxInflight, data \in ExtractBodies : ExtractData(i, data)
    \/ \E r \in 1..(MaxEdits + 1), col \in {"Name", "Phone"} : updateCell(r, col)
    \/ AddEmptyRow
    \/ VerifyBack
    \/ \E nextStep \in {"continue", "end"} : handleExport(nextStep)
    \/ \E i \in 1..MaxInflight : ExportReject(i)
    \/ \E i \in 1..MaxInflight : ExportNotOk(i)
    \/ \E i \in 1..MaxInflight, hasMessage \in BOOLEAN : ExportOk(i, hasMessage)

\* Turning the photo on the review screen.
Rotating ==
    \/ RotateLeft
    \/ RotateRight
    \/ \E i \in 1..MaxInflight : RotateFail(i)

Next ==
    \/ Client
    \/ Rotating
    \/ \E f \in OtherFiles : handleImageSelected(f)
    \/ \E i \in 1..MaxInflight, data \in OtherBodies : ExtractData(i, data)
    \/ \E i \in 1..MaxInflight, ok \in BOOLEAN : ExportAnswered(i, ok)

Spec == Init /\ [][Next]_vars

ExportNext ==
    \/ Client
    \/ \E i \in 1..MaxInflight, done \in 0..CommitWrites : ServerExport(i, done)

ExportSpec == Init /\ [][ExportNext]_vars

HistoryNext ==
    \/ Client
    \/ History /\ Len(histories') <= MaxPending
    \/ \E i \in 1..MaxInflight, ok \in BOOLEAN : ExportAnswered(i, ok)

HistorySpec == Init /\ [][HistoryNext]_vars

\* Startup, the setup form and the way back to it from the capture screen.
SetupNext ==
    \/ BootstrapEngine
    \/ \E i \in 1..MaxInflight : WarmupOk(i)
    \/ \E i \in 1..MaxInflight, message \in WarmupMessages : WarmupFail(i, message)
    \/ \E value \in TypedEventNames : setEventName(value)
    \/ \E value \in TypedColumns : setNewCol(value)
    \/ addColumn
    \/ \E col \in Range(columns) : removeColumn(col)
    \/ InitializeSession
    \/ \E confirmed \in BOOLEAN : handleEndSession(confirmed)

SetupSpec == Init /\ [][SetupNext]_vars

\* The client with the export store, where every request sent is handled by
\* the store and every answer received is handled by the client: the await
\* of fetch in handleExport resumes once the response is there.
SettlingSpec ==
    /\ Init /\ [][ExportNext]_vars
    /\ \A i \in 1..MaxInflight :
          /\ WF_vars(\E done \in 0..CommitWrites : ServerExport(i, done))
          /\ WF_vars(ExportNotOk(i)
                       \/ \E hasMessage \in BOOLEAN : ExportOk(i, hasMessage))

\* The client against any server, with the abort timer of runExtraction
\* (window.setTimeout(() => controller.abort(), API_TIMEOUT_MS)) firing when
\* its time is up unless it was cleared; the server is free never to answer.
TimerSpec ==
    /\ Init /\ [][Next]_vars
    /\ \A i \in 1..MaxInflight : WF_vars(ExtractTimeout(i))

\* The history view by itself: sessions of two events set up one after the
\* other, lists of up to two batches, and MaxHistory requests in flight.
BrowseNext ==
    \/ BootstrapEngine
    \/ \E i \in 1..MaxInflight : WarmupOk(i)
    \/ \E i \in 1..MaxInflight, message \in WarmupMessages : WarmupFail(i, message)
    \/ \E name \in EventNames \cup OtherEventNames, cols \in ColumnLists :
          handleSetupComplete(name, cols)
    \/ \E confirmed \in BOOLEAN : handleEndSession(confirmed)
    \/ History
    \/ \E i \in 1..MaxHistory, exportsList \in OtherLists :
          HistoryListOk(i, exportsList)
    \/ SelectExport("exp-2")

BrowseSpec == Init /\ [][BrowseNext]_vars

(***************************************************************************)
(* Export: idempotency, the request, and one export at a time.             *)
(***************************************************************************)
\* The export records of two different commits that each inserted rows.
TwoCommits(a, b) ==
    /\ a \in DOMAIN exportRecords
    /\ b \in DOMAIN exportRecords
    /\ a # b
    /\ exportRecords[a].rowsInserted > 0
    /\ exportRecords[b].rowsInserted > 0

\* C1: exporting the same rows R under the same idempotency key K twice
\* leaves one copy of R in the store: no two commits were made for the same
\* key and the same request content.
C1_SameExportCommittedOnce ==
    \A a, b \in 1..MaxBatches :
        TwoCommits(a, b) =>
            ~(/\ exportRecords[a].idempotencyKey = exportRecords[b].idempotencyKey
              /\ exportRecords[a].requestHash = exportRecords[b].requestHash)

\* C2: every request the app sends to POST /export-db carries the session id
\* obtained from the extraction and an idempotency key.
C2_RequestCarriesSessionAndKey ==
    \A i \in DOMAIN exports :
        /\ exports[i].req.sessionId # NoSessionId
        /\ exports[i].req.idempotencyKey # NoKey

\* C3: at most one export call is in flight at any time, and while it is in
\* flight the app is processing, so that the verify view shows the spinner in
\* place of the verification screen and its export buttons.
C3_OneExportInFlight ==
    /\ Len(exports) <= 1
    /\ exports # <<>> => isProcessing /\ ~VerificationMounted

\* C3 witness: an export call is in flight behind the spinner of the verify
\* view, answered by the server and not yet handled by the client.
C3_Witness ==
    /\ Len(exports) = 1
    /\ exports[1].phase = "answered"
    /\ view = "verify" /\ isProcessing

\* C4: a key already recorded for an export is not accepted for different
\* content: no two commits share the idempotency key and differ in the
\* request hash.
C4_KeyReuseRefused ==
    \A a, b \in 1..MaxBatches :
        TwoCommits(a, b) =>
            (exportRecords[a].idempotencyKey = exportRecords[b].idempotencyKey
                => exportRecords[a].requestHash = exportRecords[b].requestHash)

(***************************************************************************)
(* Export: the commit is all or nothing, and a failed export is harmless.  *)
(***************************************************************************)
\* The export ids a table of the store holds.
ExportIds(table) == {table[k].exportId : k \in DOMAIN table}

\* The rows of an export, its session's exported status, its export record
\* and its audit entry are in the store together or not at all.
StoreAllOrNothing ==
    /\ ExportIds(storeRows) = ExportIds(exportRecords)
    /\ ExportIds(storeRows) = ExportIds(storeSessions)
    /\ ExportIds(storeRows) = ExportIds(auditLog)
    /\ Len(storeRows) = Len(exportRecords)
    /\ Len(storeRows) = Len(storeSessions)
    /\ Len(storeRows) = Len(auditLog)

\* A step in which the client handles the failure of export call i.
FailedExportStep ==
    \E i \in 1..MaxInflight : ExportReject(i) \/ ExportNotOk(i)

\* A failed export changes neither the saved counters nor the view.
FailedExportHarmless ==
    FailedExportStep => (sessionStats' = sessionStats /\ view' = view)

ExtractFailureMessages ==
    {"Extraction timed out", "Cannot reach backend",
     "Extraction failed (status)", "Body error",
     "Extraction response format was invalid"}

\* C6: while the app shows that the extraction failed, no export request is
\* issued: the only way on is a new extraction.
C6_NoExportAfterFailedExtraction ==
    [][(statusMessage \in ExtractFailureMessages)
           => (Len(exports') <= Len(exports))]_vars

\* A step in which the client handles the success of an export call.
SucceededExportStep ==
    \E i \in 1..MaxInflight, hasMessage \in BOOLEAN : ExportOk(i, hasMessage)

\* C7: a succeeded export clears the extraction state (file, rows, status
\* message) and leaves the verify view with no export in flight; the verify
\* view is entered only by starting an extraction, and an export is issued
\* only from the verification screen of an extracted photo.
C7_ExportedIsFinal ==
    [][/\ SucceededExportStep =>
            (/\ file' = NullFile /\ rows' = <<>> /\ statusMessage' = Null
             /\ view' # "verify" /\ exports' = <<>>)
       /\ (view # "verify" /\ view' = "verify") =>
            (/\ isProcessing' /\ rows' = <<>>
             /\ \E i \in DOMAIN extracts' : extracts'[i].phase = "fetching")
       /\ (Len(exports') > Len(exports)) =>
            (VerificationMounted /\ file # NullFile)
      ]_vars

\* C7 witness: an export with rows succeeded and the app is back on the
\* capture view with the extraction state cleared.
C7_Witness ==
    /\ sessionStats.photosSaved = 1 /\ sessionStats.rowsSaved > 0
    /\ view = "capture" /\ captureNotice.kind = "saved"
    /\ file = NullFile /\ rows = <<>>

(***************************************************************************)
(* Validation before export, and the session's schema.                     *)
(***************************************************************************)
\* The columns a row must fill: the client's schema marks none as optional.
RequiredColumns(sess) == Range(sess.columns)

\* Row r has every required column, with a non-empty value.
RowComplete(sess, r) ==
    \A c \in RequiredColumns(sess) : c \in Keys(r) /\ r[c] # ""

\* C8: no export request is performed for a row set in which some row has a
\* required column missing or empty.
C8_NoExportOfIncompleteRows ==
    \A i \in DOMAIN exports :
        \A k \in DOMAIN exports[i].req.rows :
            RowComplete(exports[i].session, exports[i].req.rows[k])

\* C9: the session's columns are fixed when the session is created: while
\* the session lasts, no step changes them.
C9_SchemaFixed ==
    [][(session # NullSession /\ session' # NullSession)
           => (session'.columns = session.columns)]_vars

(***************************************************************************)
(* A failed extraction shows no rows.                                      *)
(***************************************************************************)
\* A step in which extraction call i ends by timeout or another error.
FailedExtractionStep ==
    \E i \in 1..MaxInflight :
        \/ ExtractTimeout(i)
        \/ ExtractUnreachable(i)
        \/ ExtractNotOk(i)
        \/ ExtractBodyError(i)
        \/ \E data \in ExtractBodies :
              /\ ~(TableOf(data).present /\ TableOf(data).rowsIsArray)
              /\ ExtractData(i, data)

\* C10: when an extraction ends by timeout or any other error, the rows
\* offered for verification are empty, in the app and on the verification
\* screen, and a non-empty error message is shown.
C10_FailedExtractionShowsNoRows ==
    [][FailedExtractionStep =>
          (/\ rows' = <<>>
           /\ VerificationMounted' /\ vrows' = <<>>
           /\ statusMessage' \notin {Null, ""})
      ]_vars

\* C10 witness: after an earlier photo's rows were saved, the extraction of
\* the next photo timed out and the verification screen shows no rows.
C10_Witness ==
    /\ sessionStats.rowsSaved > 0
    /\ statusMessage = "Extraction timed out"
    /\ VerificationMounted /\ vrows = <<>> /\ rows = <<>>

(***************************************************************************)
(* A failed export: retry and the rows kept for the user.                  *)
(***************************************************************************)
\* C11: an export's failure is surfaced to the user only after the request
\* was sent a second time automatically.
C11_FailureSurfacedAfterOneRetry ==
    [][\A i \in 1..MaxInflight :
          (ExportReject(i) \/ ExportNotOk(i)) => (exports[i].attempts = 2)]_vars

\* C12: after a failed export the verification screen shows exactly the rows
\* that were submitted, the user's edits and added rows included.
C12_FailedExportKeepsRows ==
    [][\A i \in 1..MaxInflight :
          (ExportReject(i) \/ ExportNotOk(i))
              => (VerificationMounted' /\ vrows' = exports[i].data)]_vars

(***************************************************************************)
(* The startup gate, the review before extraction, and retake.             *)
(***************************************************************************)
\* While the app is booting no request to /extract, /export-db or /exports
\* is in flight.
NoRequestWhileBooting ==
    view = "booting" => (extracts = <<>> /\ exports = <<>> /\ histories = <<>>)

\* The booting view is left only for the setup view, by the step that
\* handles an ok answer of POST /warmup reporting ok = true.
LeavesBootingByWarmupOk ==
    (view = "booting" /\ view' # "booting")
        => (view' = "setup" /\ \E i \in 1..MaxInflight : WarmupOk(i))

\* C13: the view leaves 'booting' for 'setup' only after a successful
\* warmup, and no /extract, /export-db or /exports request is issued before.
C13_StartupGate ==
    /\ []NoRequestWhileBooting
    /\ [][LeavesBootingByWarmupOk]_vars

\* C13 witness: after a successful warmup a
\* history request is in flight.
C13_Witness ==
    /\ view = "history" /\ histories # <<>>
    /\ boots = <<>> /\ ~isBooting

\* The extraction calls whose POST /extract has been issued.
Extracting(calls) ==
    {k \in DOMAIN calls : calls[k].phase \in {"fetching", "body"}}

\* A step that issues a POST /extract.
ExtractIssued ==
    Cardinality(Extracting(extracts')) > Cardinality(Extracting(extracts))

\* A step in which a file is selected or dropped on the capture screen.
ImageSelectedStep ==
    \E f \in Files \cup OtherFiles : handleImageSelected(f)

\* C14: selecting an image moves to the review view without a POST /extract;
\* a POST /extract is issued only from the review view, by a call the user
\* started with 'Proceed', and the view is then verify.
C14_ReviewBeforeExtraction ==
    [][/\ ImageSelectedStep =>
            (view' = "review" /\ extracts' = <<>> /\ ReviewMounted')
       /\ ExtractIssued =>
            (/\ view = "review" /\ view' = "verify"
             /\ \E i \in DOMAIN extracts : extracts[i].phase = "rotating")
      ]_vars

\* C14 witness: a POST /extract is in flight and the view is verify.
C14_Witness ==
    /\ view = "verify" /\ isProcessing
    /\ \E i \in DOMAIN extracts : extracts[i].phase = "fetching"

\* Every extraction call is about the file that is selected now.
ExtractionOfSelectedFile ==
    \A i \in DOMAIN extracts :
        file # NullFile /\ extracts[i].file.name = file.name

\* Retake goes back to capture, clears the file, and there is no extraction
\* call before or after it.
RetakeDiscards ==
    Retake => (/\ view' = "capture" /\ file' = NullFile
               /\ extracts = <<>> /\ extracts' = <<>>)

\* C15: retake returns to the capture view with the file cleared, and no
\* POST /extract is ever issued for the discarded image.
C15_RetakeDiscardsImage ==
    /\ []ExtractionOfSelectedFile
    /\ [][RetakeDiscards]_vars

\* C15 witness: the photo selected after an earlier one was saved has been
\* discarded by retake.
C15_Witness ==
    /\ view = "capture" /\ file = NullFile /\ session # NullSession
    /\ sessionStats.photosSaved = 1 /\ captureNotice = NullNotice
    /\ extracts = <<>>

(***************************************************************************)
(* Opening the history.                                                    *)
(***************************************************************************)
\* Opening the history asks for the export batches of the session's event.
OpenQueriesEvent ==
    openHistory =>
        (/\ view' = "history" /\ historyLoading'
         /\ \E k \in DOMAIN histories' :
               /\ histories'[k].kind = "load" /\ histories'[k].phase = "list"
               /\ histories'[k].eventName = session.eventName)

\* A non-empty list answered to loadHistory is shown, and the rows of its
\* first batch are asked for.
ListLoadsFirstBatch ==
    \A i \in 1..MaxHistory, exportsList \in ExportLists \ {<<>>} :
        HistoryListOk(i, exportsList) =>
            (/\ historyBatches' = exportsList
             /\ histories'[i].phase = "rows"
             /\ histories'[i].exportId = exportsList[1])

\* loadHistory ends with all its requests answered, no other history call
\* having run beside it: the list, its first batch and that batch's rows
\* are shown, nothing is loading and there is no error.
LoadResult ==
    \A i \in 1..MaxHistory, loadedRows \in HistoryRowSets :
        (/\ HistoryRowsOk(i, loadedRows)
         /\ histories[i].kind = "load" /\ ~histories[i].overlapped)
            => (/\ historyBatches' = histories[i].list
                /\ selectedExportId' = histories[i].list[1]
                /\ historyRows' = loadedRows
                /\ ~historyLoading'
                /\ historyError' = Null)

\* C16: opening the history queries the export batches of the session's
\* event, loads and selects the rows of the first batch of a non-empty
\* list, and when all requests succeed ends with the list, the first batch
\* selected, its rows, nothing loading and no error.
C16_OpenHistoryLoadsFirstBatch ==
    [][OpenQueriesEvent /\ ListLoadsFirstBatch /\ LoadResult]_vars

\* C16 witness: the history view shows a loaded list with its first batch
\* selected and that batch's rows.
C16_Witness ==
    /\ view = "history" /\ histories = <<>>
    /\ historyBatches = <<"exp-1">> /\ selectedExportId = "exp-1"
    /\ historyRows # <<>>
    /\ ~historyLoading /\ historyError = Null

(***************************************************************************)
(* The session loop and the edges between the views.                       *)
(***************************************************************************)
\* After a successful 'Save & Continue' the same session goes on in the
\* capture view with the extraction state cleared; after a successful
\* 'Save & End Session' the session is over and the view is setup.
SaveEndsOrContinues ==
    \A i \in 1..MaxInflight, hasMessage \in BOOLEAN :
        ExportOk(i, hasMessage) =>
            IF exports[i].nextStep = "continue"
            THEN /\ view' = "capture"
                 /\ session' = session /\ session' # NullSession
                 /\ file' = NullFile /\ rows' = <<>> /\ statusMessage' = Null
            ELSE /\ session' = NullSession
                 /\ view' = "setup"

\* C17: the event is created once and reused: a successful 'Save & Continue'
\* leaves the session active in the capture view with file, rows and status
\* cleared; a successful 'Save & End Session' ends the session and shows the
\* setup view, without a confirmation.
C17_SessionLoop ==
    [][SaveEndsOrContinues]_vars

\* C17 witness: two photos were saved one after the other in the same
\* session, which is still active in the capture view.
C17_Witness ==
    /\ sessionStats.photosSaved = 2
    /\ view = "capture" /\ session.eventName = "E1"
    /\ captureNotice.kind \in {"saved", "message"}

\* The edges of the documented flow.
ViewEdges ==
    {<<"booting", "setup">>, <<"setup", "capture">>, <<"capture", "review">>,
     <<"capture", "history">>, <<"capture", "setup">>, <<"review", "capture">>,
     <<"review", "verify">>, <<"verify", "capture">>, <<"verify", "setup">>,
     <<"history", "capture">>}

\* C18: the view changes only along the edges of the documented flow; the
\* booting view is never entered again and verify only from review.
C18_ViewEdges ==
    [][view' # view => <<view, view'>> \in ViewEdges]_vars

\* C18 witness: a session that saved a photo and looked at the history has
\* been ended, and the setup view is shown again.
C18_Witness ==
    /\ view = "setup" /\ session = NullSession
    /\ sessionStats.photosSaved = 1
    /\ historyBatches # <<>>

(***************************************************************************)
(* The file handed to review and extraction.                               *)
(***************************************************************************)
\* The documented upload check: JPEG, PNG or PDF, below the size cap.
AcceptedFile(f) ==
    /\ f.type \in {"image/jpeg", "image/png", "application/pdf"}
    /\ f.size # "oversize"

\* C19: a file of a type that is not accepted, or above the size cap, never
\* becomes the app's file and never reaches review or extraction.
C19_OnlyAcceptedFiles ==
    /\ file # NullFile => AcceptedFile(file)
    /\ \A i \in DOMAIN extracts : AcceptedFile(extracts[i].file)

\* C20: a POST /extract is in flight only for a session with an event name
\* and at least one column, and for an image file with content.
C20_ExtractNeedsSchemaAndImage ==
    \A i \in Extracting(extracts) :
        /\ extracts[i].session.eventName # ""
        /\ Len(extracts[i].session.columns) >= 1
        /\ extracts[i].file.size # "empty"

(***************************************************************************)
(* The columns of the rows under verification.                             *)
(***************************************************************************)
\* Every row of rs has only columns that sess names.
WithinSchema(sess, rs) ==
    \A k \in DOMAIN rs : Keys(rs[k]) \subseteq Range(sess.columns)

\* C21: the rows on the verification screen, and the rows of every export
\* request, have only columns of the session's schema.
C21_RowsWithinSchema ==
    /\ VerificationMounted => WithinSchema(session, vrows)
    /\ \A i \in DOMAIN exports :
          WithinSchema(exports[i].session, exports[i].req.rows)

(***************************************************************************)
(* Extraction and export come to an end.                                   *)
(***************************************************************************)
\* C22: an extraction whose request was sent ends with isProcessing = false
\* by the time the abort timer is up, whatever the backend does.
C22_ExtractionBoundedByTimeout ==
    (Extracting(extracts) # {}) ~> ~isProcessing

\* The end of an export is shown: after a failure the 'Export failed' status
\* on the verification screen, after a success the capture or the setup
\* view; in both cases nothing is processing any more.
ExportEndShown ==
    /\ FailedExportStep =>
          (/\ ~isProcessing' /\ VerificationMounted'
           /\ statusMessage' = "Export failed. Please check console.")
    /\ SucceededExportStep =>
          (~isProcessing' /\ statusMessage' = Null
           /\ view' \in {"capture", "setup"})

SetupStep ==
    \E name \in EventNames, cols \in ColumnLists : handleSetupComplete(name, cols)

\* The counters start at 0 with the session, a succeeded export adds one
\* photo and the rows of its request, and nothing else changes them.
CountersStep ==
    /\ SetupStep => (sessionStats' = [photosSaved |-> 0, rowsSaved |-> 0])
    /\ \A i \in 1..MaxInflight, hasMessage \in BOOLEAN :
          ExportOk(i, hasMessage) =>
              (sessionStats' =
                  [photosSaved |-> sessionStats.photosSaved + 1,
                   rowsSaved |-> sessionStats.rowsSaved
                                    + Len(exports[i].req.rows)])
    /\ FailedExportStep => (sessionStats' = sessionStats)
    /\ (sessionStats' # sessionStats) => (SetupStep \/ SucceededExportStep)

\* C24: within a session photosSaved counts the exports that succeeded and
\* rowsSaved sums their rows: both are 0 when the session is set up, each
\* succeeded export adds exactly 1 and its number of rows, and a failed
\* export, like every other step, adds nothing.
C24_SessionCounters ==
    [][CountersStep]_vars

\* C24 witness: two photos were saved in the session, one with one row and
\* one with none.
C24_Witness ==
    /\ session # NullSession /\ view = "capture"
    /\ sessionStats = [photosSaved |-> 2, rowsSaved |-> 1]

(***************************************************************************)
(* What an answered extraction leaves behind.                              *)
(***************************************************************************)
\* The answer holds a rows array, in its table or at top level, without rows.
ZeroRows(data) ==
    \/ data.hasTable /\ data.tableRowsIsArray /\ data.tableRows = <<>>
    \/ ~data.hasTable /\ data.rowsIsArray /\ data.rows = <<>>

\* The answer holds neither a table with a rows array nor top-level rows.
Malformed(data) ==
    /\ ~(data.hasTable /\ data.tableRowsIsArray)
    /\ ~data.rowsIsArray

\* C25: an extraction answered with zero rows is accepted as a result: the
\* verification screen is shown with no rows, nothing is processing, and the
\* status message is the backend's error text, else 'No rows were extracted
\* from this image.'.
C25_ZeroRowsAccepted ==
    [][\A i \in 1..MaxInflight, data \in ExtractBodies :
          (ZeroRows(data) /\ ExtractData(i, data)) =>
              (/\ view' = "verify" /\ VerificationMounted'
               /\ rows' = <<>> /\ vrows' = <<>>
               /\ ~isProcessing'
               /\ statusMessage' = (IF data.error # Null THEN data.error
                                    ELSE "No rows were extracted"))
      ]_vars

\* C25 witness: the verification screen shows no rows and the error text of
\* the backend's answer.
C25_Witness ==
    /\ VerificationMounted /\ vrows = <<>> /\ rows = <<>>
    /\ statusMessage = "Backend error"

\* C26: for an answer with neither a table that has a rows array nor
\* top-level rows, the rows are set to empty, the session's columns stay as
\* they are, and the status message reports an invalid response format.
C26_MalformedAnswer ==
    [][\A i \in 1..MaxInflight, data \in ExtractBodies :
          (Malformed(data) /\ ExtractData(i, data)) =>
              (/\ rows' = <<>>
               /\ session' = session
               /\ statusMessage' = "Extraction response format was invalid"
               /\ ~isProcessing')
      ]_vars

\* C26 witness: the verification screen reports the invalid format, with no
\* rows and the columns the session was set up with.
C26_Witness ==
    /\ VerificationMounted /\ rows = <<>>
    /\ statusMessage = "Extraction response format was invalid"
    /\ session.columns = <<"Name", "Phone">>

(***************************************************************************)
(* The frame of a failed export.                                           *)
(***************************************************************************)
\* C27: a failed export (answer not ok, or network error) leaves the
\* session, the verify view, the selected file, the counters and the capture
\* notice as they were; of the app's state it only sets the status message
\* to 'Export failed. Please check console.' and isProcessing to false.
C27_FailedExportFrame ==
    [][FailedExportStep =>
          (/\ view = "verify"
           /\ UNCHANGED <<session, view, file, sessionStats, captureNotice>>
           /\ UNCHANGED <<rows, bootError, isBooting, historyBatches,
                          historyRows, historyError, historyLoading,
                          selectedExportId>>
           /\ statusMessage' = "Export failed. Please check console."
           /\ ~isProcessing')
      ]_vars

\* C27 witness: after one photo was saved the export of the next failed; the
\* file is still selected and the counters still show one photo.
C27_Witness ==
    /\ view = "verify" /\ file # NullFile /\ ~isProcessing
    /\ statusMessage = "Export failed. Please check console."
    /\ sessionStats.photosSaved = 1 /\ captureNotice = NullNotice

(***************************************************************************)
(* The session and the file behind each view.                              *)
(***************************************************************************)
\* C28: in the capture, review, verify and history views a session is set,
\* in the review view a file is selected, and in the booting and setup views
\* no session is set.
C28_ViewsHaveSession ==
    /\ view \in {"capture", "review", "verify", "history"}
          => session # NullSession
    /\ view = "review" => file # NullFile
    /\ view \in {"booting", "setup"} => session = NullSession

\* C28 witness: the review screen shows the photo selected after an earlier
\* one was saved in the session.
C28_Witness ==
    /\ ReviewMounted /\ file # NullFile /\ session # NullSession
    /\ sessionStats.photosSaved = 1

(***************************************************************************)
(* One request at a time, and the rows of the selected photo.              *)
(***************************************************************************)
\* At most one POST /extract or POST /export-db is in flight, and while one
\* is, isProcessing is true.
OneRequestInFlight ==
    /\ Cardinality(Extracting(extracts)) + Len(exports) <= 1
    /\ (Extracting(extracts) # {} \/ exports # <<>>) => isProcessing

\* Untouched by the user, the verification screen shows the app's rows.
ShowsAppRows ==
    (VerificationMounted /\ edits = 0) => vrows = rows

\* The app's rows become non-empty only by the answer to the extraction of
\* the file selected now, and change otherwise only by a cell edit; when the
\* selected file changes there are no rows.
RowsOfSelectedFile ==
    /\ (rows' # rows /\ rows' # <<>>) =>
          \/ \E i \in DOMAIN extracts :
                /\ extracts[i].phase = "body" /\ extracts[i].file = file
                /\ file' = file /\ extracts' = RemoveAt(extracts, i)
          \/ \E r \in DOMAIN vrows, col \in ShownColumns : updateCell(r, col)
    /\ (file' # file) => (rows' = <<>>)

\* C29: at most one request among /extract and /export-db is in flight,
\* isProcessing is true while one is, and the rows shown for verification
\* are those answered to the latest extraction of the selected file, never
\* those of an earlier image.
C29_OneRequestAndCurrentRows ==
    /\ [](OneRequestInFlight /\ ShowsAppRows)
    /\ [][RowsOfSelectedFile]_vars

\* C29 witness: after a photo with one row was saved, the verification
\* screen shows the rows answered for the next photo.
C29_Witness ==
    /\ VerificationMounted /\ vrows = rows /\ rows # <<>>
    /\ sessionStats = [photosSaved |-> 1, rowsSaved |-> 1]
    /\ extracts = <<>> /\ exports = <<>>

(***************************************************************************)
(* The history view under interleaved requests.                            *)
(***************************************************************************)
\* The answer of history call i is about the current session's event and
\* about the request made last.
FreshAnswer(i) ==
    /\ histories[i].eventName = session.eventName
    /\ ~histories[i].superseded

\* C30: whatever the interleaving of history requests and answers, once
\* every request is answered the rows and the selected batch shown in the
\* history view come from the answer to the latest request, made for the
\* current session's event.
C30_HistoryShowsLastSelection ==
    [][\A i \in 1..MaxHistory, loadedRows \in HistoryRowSets :
          (HistoryMounted /\ HistoryRowsOk(i, loadedRows) /\ histories' = <<>>)
              => FreshAnswer(i)
      ]_vars

(***************************************************************************)
(* Failed history requests.                                                *)
(***************************************************************************)
\* History call i fails on its list request or on its rows request.
HistoryFails(i) == HistoryListFail(i) \/ HistoryRowsFail(i)

\* C31: every failed history request is surfaced: the list or the rows of a
\* batch failing to load, on open, on refresh or on the user's selection,
\* sets historyError to a non-empty message; a failed load ends with
\* historyLoading false and with no batches and no rows.
C31_HistoryFailureSurfaced ==
    [][\A i \in 1..MaxHistory :
          HistoryFails(i) =>
              (/\ historyError' \notin {Null, ""}
               /\ histories[i].kind = "load" =>
                     (/\ ~historyLoading'
                      /\ historyBatches' = <<>> /\ historyRows' = <<>>))
      ]_vars

(***************************************************************************)
(* Warmup retry.                                                           *)
(***************************************************************************)
\* The client in which every POST /warmup is answered or rejected in the
\* end: each pending attempt of a run is settled by the browser's fetch.
BootSpec ==
    /\ Init
    /\ [][Next]_vars
    /\ \A i \in 1..MaxInflight :
          WF_vars(WarmupOk(i) \/ \E message \in WarmupMessages : WarmupFail(i, message))

\* Every run is at its first, second or third attempt.
AttemptsBounded == \A i \in DOMAIN boots : boots[i] \in 1..maxAttempts

\* A successful attempt ends the run on the setup view.
WarmupOkStops ==
    \A i \in 1..MaxInflight :
        WarmupOk(i) =>
            /\ Len(boots') = Len(boots) - 1
            /\ ~isBooting'
            /\ view' = "setup"

\* A failed attempt before the third starts the next one and reports
\* nothing; the third failure ends the run with its own message, on the
\* startup screen.
WarmupFailRetries ==
    \A i \in 1..MaxInflight, message \in WarmupMessages :
        WarmupFail(i, message) =>
            IF boots[i] < maxAttempts
            THEN /\ boots' = [boots EXCEPT ![i] = boots[i] + 1]
                 /\ UNCHANGED <<bootError, isBooting, view>>
            ELSE /\ Len(boots') = Len(boots) - 1
                 /\ bootError' = message
                 /\ ~isBooting'
                 /\ view' = "booting"

C33_OneWarmupRun ==
    /\ [](Len(boots) <= 1 /\ (isBooting <=> boots # <<>>))
    /\ [][BootstrapEngine => (boots = <<>> /\ ~isBooting /\ boots' = <<1>>)]_vars

\* A run is at its last attempt; the retry button is disabled.
C33_Witness ==
    /\ view = "booting"
    /\ isBooting
    /\ boots = <<maxAttempts>>

(***************************************************************************)
(* End Session.                                                            *)
(***************************************************************************)
\* The state handleEndSession leaves when it goes through.
SessionEnded ==
    /\ session = NullSession
    /\ file = NullFile
    /\ rows = <<>>
    /\ statusMessage = Null
    /\ captureNotice = NullNotice
    /\ view = "setup"

ColumnsValid ==
    \A k \in 1..Len(columns) :
        /\ columns[k] # <<>>
        /\ \E j \in 1..Len(columns[k]) : columns[k][j] \notin Whitespace
        /\ trim(columns[k]) = columns[k]
        /\ \A j \in 1..Len(columns) : columns[j] = columns[k] => j = k

\* Adding a blank name, or one the list already has, changes nothing.
AddIsNoOp ==
    (addColumn /\ (trim(newCol) = <<>> \/ trim(newCol) \in Range(columns)))
        => UNCHANGED vars

\* A session starts from a non-empty event name and a non-empty list, and
\* takes both from the form.
InitializeGuarded ==
    InitializeSession =>
        /\ eventName # ""
        /\ Len(columns) >= 1
        /\ session' = [eventName |-> eventName, columns |-> NamesOf(columns)]

\* C35: after any sequence of add and remove operations the column list has
\* no duplicate name and no empty or whitespace-only name, and every stored
\* name is trimmed; adding a blank or already-present name is a no-op; a
\* session can be initialized only when the event name is non-empty and the
\* list has at least one column.
C35_ColumnList ==
    /\ [](ColumnsValid)
    /\ [][AddIsNoOp /\ InitializeGuarded]_vars

\* A session initialized after 'Name' was removed and ' ID ' was added.
C35_Witness ==
    /\ view = "capture"
    /\ session.columns = <<"Phone", "ID">>

(***************************************************************************)
(* Review rotation.                                                        *)
(***************************************************************************)
\* The quarter turns left after a turn to the left, and to the right.
TurnLeft(r) == (r + 3) % 4
TurnRight(r) == (r + 1) % 4

\* From the rotation shown, left then right and right then left come back to
\* it, and so do four turns to the same side.
RotationLaws ==
    /\ rotation \in 0..3
    /\ TurnRight(TurnLeft(rotation)) = rotation
    /\ TurnLeft(TurnRight(rotation)) = rotation
    /\ TurnLeft(TurnLeft(TurnLeft(TurnLeft(rotation)))) = rotation
    /\ TurnRight(TurnRight(TurnRight(TurnRight(rotation)))) = rotation

\* The two buttons turn by exactly these amounts.
RotateSteps ==
    /\ RotateLeft => rotation' = TurnLeft(rotation)
    /\ RotateRight => rotation' = TurnRight(rotation)

\* Proceed hands the shown file and rotation on; with rotation 0 the file
\* sent to extraction, and kept as the file under review, is that very file.
ProceedUnrotated ==
    /\ handleProceed =>
          /\ extracts'[Len(extracts')].file = file
          /\ extracts'[Len(extracts')].turns = rotation
    /\ \A i \in 1..MaxInflight :
          (runExtraction(i) /\ extracts[i].turns = 0
                            /\ extracts[i].session # NullSession) =>
              /\ extracts'[i].file = extracts[i].file
              /\ file' = extracts[i].file

\* C36: the rotation state is always in {0,1,2,3}; Rotate Left followed by
\* Rotate Right, and the reverse, restores the previous rotation, and so do
\* four rotations in the same direction; proceeding with rotation 0 submits
\* the originally selected file unchanged to extraction.
C36_ReviewRotation ==
    /\ [](RotationLaws)
    /\ [][RotateSteps /\ ProceedUnrotated]_vars

\* A photo is under extraction as it was selected, proceeded with rotation 0.
C36_Witness ==
    \E i \in DOMAIN extracts :
        /\ extracts[i].phase = "fetching"
        /\ extracts[i].turns = 0
        /\ extracts[i].file \in Files
        /\ file = extracts[i].file
        /\ view = "verify"

====
